---- MODULE Spec2Model ----
(***************************************************************************)
(* A model of src/src/enhanced_indexer.py: the varint / delta codec, the   *)
(* per-shard bloom filter, build_index over a sqlite store, postings_for   *)
(* and boolean_query, and the two-pointer list algorithms.                 *)
(*                                                                         *)
(* Three specifications share the module:                                  *)
(*   Spec       the indexer and its persisted store                        *)
(*   SpecLists  intersect_sorted and merge_sorted, one loop pass a step    *)
(*   SpecCodec  compress_postings, varint_decode_stream (one byte a step)  *)
(*              and decompress_postings                                    *)
(***************************************************************************)
EXTENDS Integers, Sequences, FiniteSets, TLC

\* ------------------------------------------------------------------ bounds
\* Records per batch handed to build_index.
MaxBlocks == 2
\* The indexer instance under check: EnhancedIndexer(shard_size, bloom_m, bloom_k).
shard_size == 2
bloom_m == 11
bloom_k == 2
\* intersect_sorted / merge_sorted run on ascending lists over 0..MaxVal.
MaxVal == 3
\* Length of the raw byte buffers handed to the decoders.
MaxBytes == 3

VARIABLES
  \* --- Spec: the indexer
  db,      \* the persisted sqlite store at db_path
  pc,      \* position of the build_index call: "idle" | "removed" | "connected"
           \* | "shards_created" | "building"
  chain,   \* the batch of the current / last build_index call
  prior,   \* while build_index runs: the store as it was when the call began
  built,   \* "never" | "complete" | "aborted": how the last build_index ended
  replaced,\* the last step committed a build over a store holding other rows
  last,    \* the operation the last step performed
  res,     \* outcome of the last query
  \* --- SpecLists
  lop,     \* "intersect" | "merge"
  lst,     \* the loop state of the running call
  lsteps,  \* loop passes taken so far
  \* --- SpecCodec
  cmode,   \* "list": a list is compressed first; "raw": a raw buffer is decoded
  cin,     \* the list handed to compress_postings
  cbuf,    \* the byte buffer
  cphase,  \* "start" | "encoded" | "decoding" | "decoded"
  cst,     \* the state of the varint_decode_stream generator
  cres,    \* outcome of decompress_postings(cbuf)
  csteps   \* bytes the generator has tried to read

idxVars == <<db, pc, chain, prior, built, replaced, last, res>>
listVars == <<lop, lst, lsteps>>
codecVars == <<cmode, cin, cbuf, cphase, cst, cres, csteps>>
vars == <<db, pc, chain, prior, built, replaced, last, res, lop, lst, lsteps,
          cmode, cin, cbuf, cphase, cst, cres, csteps>>

\* ----------------------------------------------------------------- helpers
Range(s) == {s[i] : i \in DOMAIN s}

Min(S) == CHOOSE x \in S : \A y \in S : x <= y

\* Python's sorted(set(...)): the ascending list of the elements of S.
RECURSIVE SortSet(_)
SortSet(S) == IF S = {} THEN <<>> ELSE <<Min(S)>> \o SortSet(S \ {Min(S)})

\* Insert x into the ascending list s, keeping duplicates.
RECURSIVE Insert(_, _)
Insert(x, s) ==
  IF s = <<>> THEN <<x>>
  ELSE IF x <= Head(s) THEN <<x>> \o s
  ELSE <<Head(s)>> \o Insert(x, Tail(s))

\* Python's sorted(list): ascending, duplicates kept.
RECURSIVE Sorted(_)
Sorted(s) == IF s = <<>> THEN <<>> ELSE Insert(Head(s), Sorted(Tail(s)))

StrictlyAscending(s) == \A i \in 1..(Len(s) - 1) : s[i] < s[i + 1]

RECURSIVE TwoTo(_)
TwoTo(n) == IF n = 0 THEN 1 ELSE 2 * TwoTo(n - 1)

\* 1 << n, tabulated.
Pow2Table == [n \in 0..30 |-> TwoTo(n)]

Pow2(n) == Pow2Table[n]

RECURSIVE SeqsUpTo(_, _)
SeqsUpTo(S, n) ==
  IF n = 0 THEN {<<>>}
  ELSE LET shorter == SeqsUpTo(S, n - 1)
       IN shorter \cup {Append(s, x) : s \in {t \in shorter : Len(t) = n - 1}, x \in S}

\* -------------------------------------------------------------- VarintCodec
\* varint_encode(n) for n >= 0: n & 0x7F is n % 128, n >>= 7 is n \div 128,
\* towrite | 0x80 is towrite + 128.  (For n < 0 the source never leaves its loop:
\* n >>= 7 stays -1.  The model hands it non-negative integers only.)
RECURSIVE varint_encode(_)
varint_encode(n) ==
  LET towrite == n % 128
      rest == n \div 128
  IN IF rest # 0 THEN <<towrite + 128>> \o varint_encode(rest) ELSE <<towrite>>

\* The generator varint_decode_stream(b) before its first byte.
\* mid: inside the inner `while True` (a value has begun); out: the values yielded.
DecInit(b) ==
  [b |-> b, i |-> 0, shift |-> 0, val |-> 0, mid |-> FALSE, out |-> <<>>,
   status |-> "running"]

\* A decoder that tests `i < L` before every read: a value cut short is dropped.
DecStepTruncating(s) ==
  IF s.i >= Len(s.b)
  THEN [s EXCEPT !.status = "done"]
  ELSE LET byte == s.b[s.i + 1]
           v == s.val + (byte % 128) * Pow2(s.shift)
       IN IF byte < 128
          THEN [s EXCEPT !.i = s.i + 1, !.val = 0, !.shift = 0, !.mid = FALSE,
                         !.out = Append(s.out, v)]
          ELSE [s EXCEPT !.i = s.i + 1, !.val = v, !.shift = s.shift + 7,
                         !.mid = TRUE]

\* One pass of the generator's loops: the outer test `i < L` when no value has
\* begun, then the read b[i], which raises IndexError past the end of the buffer.
DecStep(s) ==
  IF ~s.mid /\ s.i >= Len(s.b)
  THEN [s EXCEPT !.status = "done"]
  ELSE IF s.i >= Len(s.b)
  THEN [s EXCEPT !.status = "IndexError"]
  ELSE LET byte == s.b[s.i + 1]
           v == s.val + (byte % 128) * Pow2(s.shift)
       IN IF byte < 128
          THEN [s EXCEPT !.i = s.i + 1, !.val = 0, !.shift = 0, !.mid = FALSE,
                         !.out = Append(s.out, v)]
          ELSE [s EXCEPT !.i = s.i + 1, !.val = v, !.shift = s.shift + 7,
                         !.mid = TRUE]

RECURSIVE DecRun(_)
DecRun(s) == IF s.status # "running" THEN s ELSE DecRun(DecStep(s))

\* The generator consumed to its end: the values yielded and how it ended.
varint_decode_stream(b) == DecRun(DecInit(b))

\* ------------------------------------------------------------ PostingsCodec
\* prev is never advanced: every value is encoded whole.
DeltasNoPrev(block_numbers) ==
  [i \in 1..Len(block_numbers) |-> block_numbers[i]]

\* The deltas compress_postings hands to varint_encode (prev starts at 0).
Deltas(block_numbers) ==
  [i \in 1..Len(block_numbers) |->
     block_numbers[i] - (IF i = 1 THEN 0 ELSE block_numbers[i - 1])]

RECURSIVE EncodeAll(_)
EncodeAll(ds) ==
  IF ds = <<>> THEN <<>> ELSE varint_encode(Head(ds)) \o EncodeAll(Tail(ds))

compress_postings(block_numbers) ==
  IF block_numbers = <<>> THEN <<>> ELSE EncodeAll(Deltas(block_numbers))

\* The running sums of the decoded deltas (prev starts at 0).
RECURSIVE RunningSum(_, _)
RunningSum(ds, prev) ==
  IF ds = <<>> THEN <<>>
  ELSE <<prev + Head(ds)>> \o RunningSum(Tail(ds), prev + Head(ds))

\* decompress_postings(b): the generator's IndexError propagates and res is lost.
decompress_postings(b) ==
  LET d == varint_decode_stream(b)
  IN IF d.status = "IndexError"
     THEN [err |-> "IndexError", val |-> <<>>]
     ELSE [err |-> "none", val |-> RunningSum(d.out, 0)]

\* ----------------------------------------------- intersect_sorted / merge_sorted
IntInit(a, b) == [a |-> a, b |-> b, i |-> 0, j |-> 0, out |-> <<>>, phase |-> "main"]

\* The two advancing branches swapped.
IntStepWrongPointer(s) ==
  IF ~(s.i < Len(s.a) /\ s.j < Len(s.b))
  THEN [s EXCEPT !.phase = "done"]
  ELSE LET x == s.a[s.i + 1]
           y == s.b[s.j + 1]
       IN IF x = y
          THEN [s EXCEPT !.out = Append(s.out, x), !.i = s.i + 1, !.j = s.j + 1]
          ELSE IF x < y
          THEN [s EXCEPT !.j = s.j + 1]
          ELSE [s EXCEPT !.i = s.i + 1]

\* One pass of intersect_sorted's while loop (indices are 0-based as in the source).
IntStep(s) ==
  IF ~(s.i < Len(s.a) /\ s.j < Len(s.b))
  THEN [s EXCEPT !.phase = "done"]
  ELSE LET x == s.a[s.i + 1]
           y == s.b[s.j + 1]
       IN IF x = y
          THEN [s EXCEPT !.out = Append(s.out, x), !.i = s.i + 1, !.j = s.j + 1]
          ELSE IF x < y
          THEN [s EXCEPT !.i = s.i + 1]
          ELSE [s EXCEPT !.j = s.j + 1]

RECURSIVE IntRun(_)
IntRun(s) == IF s.phase = "done" THEN s ELSE IntRun(IntStep(s))

intersect_sorted(a, b) == IntRun(IntInit(a, b)).out

\* merge_sorted: the merge loop ("main"), the two tail loops ("restA", "restB"),
\* then the pass that drops equal neighbours ("dedupe": k walks out, prev is the
\* last value kept, <<>> standing for None).
MergeInit(a, b) ==
  [a |-> a, b |-> b, i |-> 0, j |-> 0, out |-> <<>>, phase |-> "main",
   k |-> 0, res |-> <<>>, prev |-> <<>>]

MergeStep(s) ==
  CASE s.phase = "main" ->
         IF ~(s.i < Len(s.a) /\ s.j < Len(s.b))
         THEN [s EXCEPT !.phase = "restA"]
         ELSE LET x == s.a[s.i + 1]
                  y == s.b[s.j + 1]
              IN IF x = y
                 THEN [s EXCEPT !.out = Append(s.out, x), !.i = s.i + 1, !.j = s.j + 1]
                 ELSE IF x < y
                 THEN [s EXCEPT !.out = Append(s.out, x), !.i = s.i + 1]
                 ELSE [s EXCEPT !.out = Append(s.out, y), !.j = s.j + 1]
    [] s.phase = "restA" ->
         IF s.i < Len(s.a)
         THEN [s EXCEPT !.out = Append(s.out, s.a[s.i + 1]), !.i = s.i + 1]
         ELSE [s EXCEPT !.phase = "restB"]
    [] s.phase = "restB" ->
         IF s.j < Len(s.b)
         THEN [s EXCEPT !.out = Append(s.out, s.b[s.j + 1]), !.j = s.j + 1]
         ELSE [s EXCEPT !.phase = "dedupe"]
    [] s.phase = "dedupe" ->
         IF s.k < Len(s.out)
         THEN LET x == s.out[s.k + 1]
              IN IF s.prev # <<x>>
                 THEN [s EXCEPT !.res = Append(s.res, x), !.prev = <<x>>, !.k = s.k + 1]
                 ELSE [s EXCEPT !.k = s.k + 1]
         ELSE [s EXCEPT !.phase = "done"]
    [] OTHER -> s

RECURSIVE MergeRun(_)
MergeRun(s) == IF s.phase = "done" THEN s ELSE MergeRun(MergeStep(s))

merge_sorted(a, b) == MergeRun(MergeInit(a, b)).res

\* --------------------------------------------------------------- BloomFilter
\* hashlib.sha256(key).digest() for the keys of the model, as 32 bytes each.
Sha256(key) ==
  CASE key = "A" -> <<85, 154, 234, 208, 130, 100, 213, 121, 93, 57, 9, 113, 140, 221, 5, 171, 212, 149, 114, 232, 79, 229, 85, 144, 238, 243, 26, 136, 160, 143, 223, 253>>
    [] key = "B" -> <<223, 126, 112, 229, 2, 21, 68, 244, 131, 75, 190, 230, 74, 158, 55, 137, 254, 188, 75, 232, 20, 112, 223, 98, 156, 173, 109, 219, 3, 50, 10, 92>>
    [] key = "C" -> <<107, 35, 192, 213, 243, 93, 27, 17, 249, 182, 131, 240, 176, 166, 23, 53, 93, 235, 17, 39, 125, 145, 174, 9, 29, 57, 156, 101, 91, 135, 148, 13>>
    [] key = "E" -> <<169, 245, 21, 102, 189, 103, 5, 247, 234, 106, 213, 75, 185, 222, 180, 73, 247, 149, 88, 45, 101, 41, 160, 226, 34, 7, 184, 152, 18, 51, 236, 88>>
    [] key = "topic:5" -> <<107, 31, 199, 147, 202, 86, 159, 238, 46, 75, 130, 251, 255, 84, 44, 45, 182, 205, 13, 187, 173, 63, 74, 109, 95, 45, 24, 71, 178, 254, 41, 232>>

\* struct.unpack_from(">Q", h, start)[0] % m: the 8 bytes from offset start
\* (0-based) read big-endian, reduced modulo m byte by byte (Horner), which is the
\* same residue and keeps every intermediate value small.
RECURSIVE UnpackQMod(_, _, _, _)
UnpackQMod(h, start, n, m) ==
  IF n = 0 THEN 0 ELSE (UnpackQMod(h, start, n - 1, m) * 256 + h[start + n]) % m

\* BloomFilter._hashes: the k positions of a key, in round order.
BloomFilter_hashes(key) ==
  LET h == Sha256(key)
  IN [r \in 1..bloom_k |-> UnpackQMod(h, ((r - 1) * 8) % (Len(h) - 7), 8, bloom_m)]

\* The positions of every key of the model, computed once.
ModelKeys == {"A", "B", "C", "E", "topic:5"}

HashPositions == [key \in ModelKeys |-> BloomFilter_hashes(key)]

\* BloomFilter.add.  bitarr, a Python int used as a bit set, is the set of its
\* 1-bit positions.
BloomFilter_add(bitarr, key) == bitarr \cup Range(HashPositions[key])

\* BloomFilter.__contains__.
BloomFilter_contains(bitarr, key) ==
  \A r \in 1..bloom_k : HashPositions[key][r] \in bitarr

\* The byte holding bits 8q .. 8q+7 of bitarr.
RECURSIVE ByteOf(_, _, _)
ByteOf(bitarr, q, t) ==
  IF t = 8 THEN 0
  ELSE (IF 8 * q + t \in bitarr THEN Pow2(t) ELSE 0) + ByteOf(bitarr, q, t + 1)

\* int.to_bytes(num_bytes, 'little'): the least significant byte first.
BloomFilter_to_bytes_little(bitarr) ==
  LET num_bytes == (bloom_m + 7) \div 8
  IN [j \in 1..num_bytes |-> ByteOf(bitarr, j - 1, 0)]

\* BloomFilter.to_bytes: bitarr.to_bytes(num_bytes, 'big').
BloomFilter_to_bytes(bitarr) ==
  LET num_bytes == (bloom_m + 7) \div 8
  IN [j \in 1..num_bytes |-> ByteOf(bitarr, num_bytes - j, 0)]

\* BloomFilter.from_bytes: int.from_bytes(b, 'big').
BloomFilter_from_bytes(b) ==
  {p \in 0..(8 * Len(b) - 1) : (b[Len(b) - (p \div 8)] \div Pow2(p % 8)) % 2 = 1}

\* ------------------------------------------------------------------ inputs
\* Events.  A transaction without "topics" behaves as one with topics [].
Tx1 == [from |-> "A", to |-> "C", topics |-> <<>>]
Tx2 == [from |-> "A", to |-> "E", topics |-> <<"5">>]
Tx3 == [from |-> "E", to |-> "A", topics |-> <<"5">>]

\* Records.  Blocks 0 and 1 share a shard and block 2 lies in the next one;
\* block 300 lies far away and its delta takes two bytes; one record of block 2
\* has no events.
\* BadRecord has no "transactions": build_index raises KeyError on it.
BadRecord == [block_number |-> 1]

Records ==
  {[block_number |-> 0, transactions |-> <<Tx1>>],
   [block_number |-> 0, transactions |-> <<Tx2, Tx3>>],
   [block_number |-> 1, transactions |-> <<Tx2, Tx3>>],
   [block_number |-> 2, transactions |-> <<Tx1>>],
   [block_number |-> 300, transactions |-> <<Tx1>>],
   [block_number |-> 2, transactions |-> <<>>],
   BadRecord}

Batches == SeqsUpTo(Records, MaxBlocks)

\* Keys asked for; "B" occurs in no record.
QueryKeys == ModelKeys

KeyLists ==
  {<<>>, <<"A">>, <<"B">>, <<"C", "A">>, <<"topic:5", "C">>,
   <<"E", "topic:5", "A">>}

\* --------------------------------------------------------------- build_index
EmptyFn == [x \in {} |-> {}]

\* The keys one transaction is indexed under, in the order the source adds them:
\* tx["from"], tx["to"], then f"topic:{topic}" for each topic.
KeysOfTx(tx) ==
  <<tx.from, tx.to>> \o [t \in 1..Len(tx.topics) |-> "topic:" \o tx.topics[t]]

RECURSIVE KeysOfTxs(_)
KeysOfTxs(txs) ==
  IF txs = <<>> THEN <<>> ELSE KeysOfTx(Head(txs)) \o KeysOfTxs(Tail(txs))

\* shard_postings[shard_id][key].append(blknum); shard_blooms[shard_id].add(key).
\* shard_postings is a defaultdict: the shard's and the key's entries appear here.
AddKey(acc, shard_id, key, blknum) ==
  LET sp == acc.shard_postings
      inner == IF shard_id \in DOMAIN sp THEN sp[shard_id] ELSE EmptyFn
      old == IF key \in DOMAIN inner THEN inner[key] ELSE <<>>
      inner2 == [k \in DOMAIN inner \cup {key} |->
                   IF k = key THEN Append(old, blknum) ELSE inner[k]]
  IN [shard_postings |->
        [s \in DOMAIN sp \cup {shard_id} |-> IF s = shard_id THEN inner2 ELSE sp[s]],
      shard_blooms |->
        [acc.shard_blooms EXCEPT ![shard_id] = BloomFilter_add(@, key)]]

RECURSIVE AddKeys(_, _, _, _)
AddKeys(acc, shard_id, keys, blknum) ==
  IF keys = <<>> THEN acc
  ELSE AddKeys(AddKey(acc, shard_id, Head(keys), blknum), shard_id, Tail(keys), blknum)

\* The body of `for blk in chain` for one well-formed record.
ScanBlock(acc, blk) ==
  LET blknum == blk.block_number
      shard_id == blknum \div shard_size
      sb == acc.shard_blooms
      withBloom ==
        [acc EXCEPT !.shard_blooms =
           [s \in DOMAIN sb \cup {shard_id} |-> IF s \in DOMAIN sb THEN sb[s] ELSE {}]]
  IN AddKeys(withBloom, shard_id, KeysOfTxs(blk.transactions), blknum)

RECURSIVE ScanChain(_, _)
ScanChain(acc, c) ==
  IF c = <<>> THEN acc ELSE ScanChain(ScanBlock(acc, Head(c)), Tail(c))

\* blk["transactions"] raises KeyError on a record without the field.
WellFormed(c) == \A n \in DOMAIN c : "transactions" \in DOMAIN c[n]

\* end_block one too far.
ShardRowWideEnd(shard_id, bitarr) ==
  [shard_id |-> shard_id,
   start_block |-> shard_id * shard_size,
   end_block |-> shard_id * shard_size + shard_size,
   bloom |-> BloomFilter_to_bytes(bitarr)]

\* The row INSERTed INTO shards for one shard.
ShardRow(shard_id, bitarr) ==
  [shard_id |-> shard_id,
   start_block |-> shard_id * shard_size,
   end_block |-> shard_id * shard_size + shard_size - 1,
   bloom |-> BloomFilter_to_bytes(bitarr)]

\* The row INSERTed INTO postings for one key of one shard:
\* compress_postings(sorted(set(blocks))).
PostingsRow(addr, shard_id, blocks) ==
  [address |-> addr, shard_id |-> shard_id,
   postings |-> compress_postings(SortSet(Range(blocks)))]

\* The rows build_index INSERTs for a well-formed batch (one row per shard that
\* has a key, one per key of each such shard).
IndexRows(c) ==
  LET acc == ScanChain([shard_postings |-> EmptyFn, shard_blooms |-> EmptyFn], c)
      sp == acc.shard_postings
  IN [shards |-> {ShardRow(s, acc.shard_blooms[s]) : s \in DOMAIN sp},
      postings |-> UNION {{PostingsRow(a, s, sp[s][a]) : a \in DOMAIN sp[s]} :
                            s \in DOMAIN sp}]

\* ------------------------------------------------------------------- the store
\* exists: the file at db_path exists; tables: the tables it holds, a subset
\* of {"shards", "postings"}; shards, postings: the rows of the two tables.
NoDb == [exists |-> FALSE, tables |-> {}, shards |-> {}, postings |-> {}]

\* Both tables, as lines 105-106 create them.
Schema == {"shards", "postings"}

\* The rows of a store.
IndexOf(d) == [shards |-> d.shards, postings |-> d.postings]

\* The file is left in place.
NotRemoved(d) == d

\* Lines 101-102: os.remove(db_path) if the file exists.
Removed(d) == NoDb

\* sqlite3.connect(db_path) creates the (empty) file when there is none.
Connected(d) == IF d.exists THEN d ELSE [d EXCEPT !.exists = TRUE]

\* c.execute('CREATE TABLE t(...)'): the statement is committed on its own, so
\* the table is there for every connection as soon as it returns.
CreateTable(d, t) == [d EXCEPT !.tables = @ \cup {t}]

\* ----------------------------------------------------------------- postings_for
\* The shards whose bloom filter reports the key.
Candidates(d, key) ==
  {r.shard_id : r \in {x \in d.shards :
     BloomFilter_contains(BloomFilter_from_bytes(x.bloom), key)}}

\* res.extend(decompress_postings(r[0])) over the candidate shards that have a
\* row for the key, in ascending shard_id (the order sqlite returns an INTEGER
\* PRIMARY KEY table in); an IndexError of the decoder propagates.
RECURSIVE Fetch(_, _, _)
Fetch(d, key, sids) ==
  IF sids = <<>> THEN [err |-> "none", val |-> <<>>]
  ELSE LET rows == {r \in d.postings : r.address = key /\ r.shard_id = Head(sids)}
           rest == Fetch(d, key, Tail(sids))
       IN IF rows = {} THEN rest
          ELSE LET dec == decompress_postings((CHOOSE r \in rows : TRUE).postings)
               IN IF dec.err # "none" THEN dec
                  ELSE IF rest.err # "none" THEN rest
                  ELSE [err |-> "none", val |-> dec.val \o rest.val]

\* postings_for(key) on store d: "SELECT ... FROM shards" raises
\* sqlite3.OperationalError (no such table) when the file has no table shards,
\* and so does "SELECT ... FROM postings", run once per candidate shard, when
\* it has no table postings.
postings_for(d, key) ==
  IF "shards" \notin d.tables THEN [err |-> "OperationalError", val |-> <<>>]
  ELSE LET cands == SortSet(Candidates(d, key))
       IN IF cands # <<>> /\ "postings" \notin d.tables
          THEN [err |-> "OperationalError", val |-> <<>>]
          ELSE LET got == Fetch(d, key, cands)
               IN IF got.err # "none" THEN got
                  ELSE [err |-> "none", val |-> Sorted(got.val)]

\* ---------------------------------------------------------------- boolean_query
\* lists.append(self.postings_for(k)) for k in must_have: the first error ends it.
RECURSIVE PostingsLists(_, _)
PostingsLists(d, ks) ==
  IF ks = <<>> THEN [err |-> "none", val |-> <<>>]
  ELSE LET p == postings_for(d, Head(ks))
           rest == PostingsLists(d, Tail(ks))
       IN IF p.err # "none" THEN [err |-> p.err, val |-> <<>>]
          ELSE IF rest.err # "none" THEN rest
          ELSE [err |-> "none", val |-> <<p.val>> \o rest.val]

\* cur = lists[0]; for lst in lists[1:]: cur = intersect_sorted(cur, lst).
RECURSIVE IntersectAll(_, _)
IntersectAll(cur, lists) ==
  IF lists = <<>> THEN cur
  ELSE IntersectAll(intersect_sorted(cur, Head(lists)), Tail(lists))

\* any_list = merge_sorted(any_list, postings_for(k)) for k in any_of.
RECURSIVE MergeAll(_, _)
MergeAll(any_list, lists) ==
  IF lists = <<>> THEN any_list
  ELSE MergeAll(merge_sorted(any_list, Head(lists)), Tail(lists))

\* boolean_query(must_have, any_of) on store d.  required is None exactly when
\* must_have is empty.
boolean_query(d, must_have, any_of) ==
  LET musts == PostingsLists(d, must_have)
      anys == PostingsLists(d, any_of)
  IN IF musts.err # "none" THEN [err |-> musts.err, val |-> <<>>]
     ELSE IF anys.err # "none" THEN [err |-> anys.err, val |-> <<>>]
     ELSE LET hasRequired == musts.val # <<>>
              required == IF hasRequired
                          THEN IntersectAll(Head(musts.val), Tail(musts.val))
                          ELSE <<>>
              any_list == MergeAll(<<>>, anys.val)
          IN [err |-> "none",
              val |-> IF ~hasRequired /\ any_list # <<>> THEN any_list
                      ELSE IF ~hasRequired /\ any_list = <<>> THEN <<>>
                      ELSE IF hasRequired /\ any_list = <<>> THEN required
                      ELSE intersect_sorted(required, any_list)]

\* ------------------------------------------------------------ Spec: the indexer
NoRes ==
  [op |-> "none", key |-> "", must_have |-> <<>>, any_of |-> <<>>,
   err |-> "none", val |-> <<>>]

IdxIdle ==
  /\ db = NoDb /\ pc = "idle" /\ chain = <<>> /\ prior = NoDb
  /\ built = "never" /\ replaced = FALSE /\ last = "init" /\ res = NoRes

ListIdle == lop = "none" /\ lst = IntInit(<<>>, <<>>) /\ lsteps = 0

CodecIdle ==
  /\ cmode = "none" /\ cin = <<>> /\ cbuf = <<>> /\ cphase = "off"
  /\ cst = DecInit(<<>>) /\ cres = [err |-> "none", val |-> <<>>] /\ csteps = 0

Init == IdxIdle /\ ListIdle /\ CodecIdle

\* build_index(chain), lines 101-102: the old store is removed.  The batch is
\* not read before line 110; the model draws it at the last step before that.
BuildRemove ==
  /\ pc = "idle"
  /\ pc' = "removed"
  /\ prior' = db
  /\ db' = Removed(db)
  /\ chain' = <<>>
  /\ last' = "build_remove"
  /\ res' = NoRes
  /\ replaced' = FALSE
  /\ UNCHANGED <<built, listVars, codecVars>>

\* build_index, lines 103-104: sqlite3.connect creates the file, with no table.
BuildConnect ==
  /\ pc = "removed"
  /\ pc' = "connected"
  /\ db' = Connected(db)
  /\ last' = "build_connect"
  /\ UNCHANGED <<chain, prior, built, replaced, res, listVars, codecVars>>

\* build_index, line 105: CREATE TABLE shards.
BuildCreateShards ==
  /\ pc = "connected"
  /\ pc' = "shards_created"
  /\ db' = CreateTable(db, "shards")
  /\ last' = "build_create_shards"
  /\ UNCHANGED <<chain, prior, built, replaced, res, listVars, codecVars>>

\* build_index(c), lines 106-107: CREATE TABLE postings, and a commit with
\* nothing left to commit.
BuildCreatePostings(c) ==
  /\ pc = "shards_created"
  /\ pc' = "building"
  /\ chain' = c
  /\ db' = CreateTable(db, "postings")
  /\ last' = "build_create_postings"
  /\ UNCHANGED <<prior, built, replaced, res, listVars, codecVars>>

\* build_index, lines 108-135, on a well-formed batch: the scan, the INSERTs and
\* the commit that makes them visible.
BuildCommit ==
  /\ pc = "building"
  /\ WellFormed(chain)
  /\ LET rows == IndexRows(chain)
     IN /\ db' = [db EXCEPT !.shards = db.shards \cup rows.shards,
                            !.postings = db.postings \cup rows.postings]
        /\ replaced' = (prior.postings # {} /\ IndexOf(prior) # rows)
  /\ pc' = "idle"
  /\ built' = "complete"
  /\ last' = "build_commit"
  /\ prior' = NoDb
  /\ UNCHANGED <<chain, res, listVars, codecVars>>

\* build_index, lines 110-115, on a batch with a record that has no
\* "transactions": KeyError leaves the call before any INSERT.
BuildAbort ==
  /\ pc = "building"
  /\ ~WellFormed(chain)
  /\ pc' = "idle"
  /\ built' = "aborted"
  /\ last' = "build_abort"
  /\ prior' = NoDb
  /\ UNCHANGED <<db, chain, replaced, res, listVars, codecVars>>

\* postings_for(key).
PostingsFor(key) ==
  /\ pc = "idle"
  /\ LET r == postings_for(db, key)
     IN res' = [op |-> "postings_for", key |-> key, must_have |-> <<>>,
                any_of |-> <<>>, err |-> r.err, val |-> r.val]
  /\ db' = Connected(db)
  /\ last' = "postings_for"
  /\ replaced' = FALSE
  /\ UNCHANGED <<pc, chain, prior, built, listVars, codecVars>>

\* boolean_query(must_have, any_of): it connects once per postings_for call, so
\* not at all when both lists are empty.
BooleanQuery(must_have, any_of) ==
  /\ pc = "idle"
  /\ LET r == boolean_query(db, must_have, any_of)
     IN res' = [op |-> "boolean_query", key |-> "", must_have |-> must_have,
                any_of |-> any_of, err |-> r.err, val |-> r.val]
  /\ db' = IF must_have = <<>> /\ any_of = <<>> THEN db ELSE Connected(db)
  /\ last' = "boolean_query"
  /\ replaced' = FALSE
  /\ UNCHANGED <<pc, chain, prior, built, listVars, codecVars>>

Next ==
  \/ BuildRemove
  \/ BuildConnect
  \/ BuildCreateShards
  \/ \E c \in Batches : BuildCreatePostings(c)
  \/ BuildCommit
  \/ BuildAbort
  \/ \E key \in QueryKeys : PostingsFor(key)
  \/ \E must_have \in KeyLists, any_of \in KeyLists : BooleanQuery(must_have, any_of)

Spec == Init /\ [][Next]_vars

\* ------------------------------------- SpecLists: the two-pointer algorithms
\* The strictly ascending, duplicate-free lists over 0..MaxVal.
AscLists == {SortSet(S) : S \in SUBSET (0..MaxVal)}

ListInit ==
  /\ IdxIdle /\ CodecIdle
  /\ lsteps = 0
  /\ \E a \in AscLists, b \in AscLists :
       \/ lop = "intersect" /\ lst = IntInit(a, b)
       \/ lop = "merge" /\ lst = MergeInit(a, b)

\* One pass of intersect_sorted's loop.
IntersectPass ==
  /\ lop = "intersect"
  /\ lst.phase # "done"
  /\ lst' = IntStep(lst)
  /\ lsteps' = lsteps + 1
  /\ UNCHANGED <<lop, idxVars, codecVars>>

\* One pass of one of merge_sorted's loops.
MergePass ==
  /\ lop = "merge"
  /\ lst.phase # "done"
  /\ lst' = MergeStep(lst)
  /\ lsteps' = lsteps + 1
  /\ UNCHANGED <<lop, idxVars, codecVars>>

ListNext == IntersectPass \/ MergePass

SpecLists == ListInit /\ [][ListNext]_vars

\* --------------------------------------------------- SpecCodec: the codecs
\* Values whose deltas take one, two and three bytes.
CodecVals == {0, 1, 127, 128, 300, 16384}

CodecLists == {SortSet(S) : S \in SUBSET CodecVals}

\* Bytes with and without the continuation bit.
ByteVals == {0, 1, 127, 128, 129, 255}

RawBufs == SeqsUpTo(ByteVals, MaxBytes)

CodecInit ==
  /\ IdxIdle /\ ListIdle
  /\ cst = DecInit(<<>>) /\ cres = [err |-> "none", val |-> <<>>] /\ csteps = 0
  /\ \/ cmode = "list" /\ cin \in CodecLists /\ cbuf = <<>> /\ cphase = "start"
     \/ cmode = "raw" /\ cin = <<>> /\ cbuf \in RawBufs /\ cphase = "encoded"

\* cbuf = compress_postings(cin).
Compress ==
  /\ cphase = "start"
  /\ cbuf' = compress_postings(cin)
  /\ cphase' = "encoded"
  /\ UNCHANGED <<cmode, cin, cst, cres, csteps, idxVars, listVars>>

\* varint_decode_stream(cbuf) is created.
DecodeBegin ==
  /\ cphase = "encoded"
  /\ cst' = DecInit(cbuf)
  /\ cphase' = "decoding"
  /\ UNCHANGED <<cmode, cin, cbuf, cres, csteps, idxVars, listVars>>

\* One pass of the generator's loops.
DecodePass ==
  /\ cphase = "decoding"
  /\ cst.status = "running"
  /\ cst' = DecStep(cst)
  /\ csteps' = csteps + 1
  /\ UNCHANGED <<cmode, cin, cbuf, cphase, cres, idxVars, listVars>>

\* decompress_postings(cbuf), once the generator has ended.
Decompress ==
  /\ cphase = "decoding"
  /\ cst.status # "running"
  /\ cres' = decompress_postings(cbuf)
  /\ cphase' = "decoded"
  /\ UNCHANGED <<cmode, cin, cbuf, cst, csteps, idxVars, listVars>>

CodecNext == Compress \/ DecodeBegin \/ DecodePass \/ Decompress

SpecCodec == CodecInit /\ [][CodecNext]_vars

\* ================================================================ properties

\* The block numbers of the records of batch c that contain an event whose
\* from, to or "topic:"-prefixed topic is key.
TrueBlocks(c, key) ==
  {c[n].block_number : n \in {m \in DOMAIN c :
     \E t \in DOMAIN c[m].transactions :
       LET tx == c[m].transactions[t]
       IN \/ tx.from = key
          \/ tx.to = key
          \/ \E i \in DOMAIN tx.topics : "topic:" \o tx.topics[i] = key}}

\* The left-to-right intersection of postings_for(k) over a non-empty key list.
ClaimedRequired(d, ks) ==
  IntersectAll(postings_for(d, ks[1]).val,
               [i \in 1..(Len(ks) - 1) |-> postings_for(d, ks[i + 1]).val])

\* The duplicate-free union of postings_for(k) over a key list.
ClaimedOptional(d, ks) ==
  SortSet(UNION {Range(postings_for(d, ks[i]).val) : i \in DOMAIN ks})

\* C1: on a built index, boolean_query(must_have, any_of) returns
\* intersect_sorted(required, optional) when both lists are non-empty (also when
\* optional is the empty list), optional when only any_of is non-empty, required
\* when only must_have is non-empty, and the empty list when both are empty.
C1_BooleanQueryCombination ==
  (last = "boolean_query" /\ built = "complete") =>
    /\ res.err = "none"
    /\ res.val =
         IF res.must_have # <<>> /\ res.any_of # <<>>
         THEN intersect_sorted(ClaimedRequired(db, res.must_have),
                               ClaimedOptional(db, res.any_of))
         ELSE IF res.any_of # <<>> THEN ClaimedOptional(db, res.any_of)
         ELSE IF res.must_have # <<>> THEN ClaimedRequired(db, res.must_have)
         ELSE <<>>

\* C2: at every intermediate step of build_index the persisted store holds
\* either the complete prior index or the complete new index.
C2_AtomicReplace ==
  pc = "building" =>
    \/ IndexOf(db) = IndexOf(prior)
    \/ WellFormed(chain) /\ IndexOf(db) = IndexRows(chain)

\* C3: after a completed build_index, postings_for(key) returns without error
\* exactly the ascending, duplicate-free list of the block numbers of the
\* records that mention key (the empty list for a key that occurs nowhere), and
\* every shard that holds a postings row for a key is a bloom candidate for it.
C3_PostingsForExact ==
  /\ (last = "postings_for" /\ built = "complete") =>
       /\ res.err = "none"
       /\ res.val = SortSet(TrueBlocks(chain, res.key))
       /\ StrictlyAscending(res.val)
  /\ (pc = "idle" /\ built = "complete") =>
       \A p \in db.postings : p.shard_id \in Candidates(db, p.address)

\* A key found in one shard while the bloom filter of another shard, which has
\* no row for it, reports it too.
C3_Witness ==
  /\ last = "postings_for" /\ built = "complete"
  /\ res.val # <<>>
  /\ \E sid \in Candidates(db, res.key) :
       \A p \in db.postings : ~(p.address = res.key /\ p.shard_id = sid)

\* C4: postings_for and boolean_query leave the persisted store as it was.
C4_QueriesReadOnly ==
  [][last' \in {"postings_for", "boolean_query"} => db' = db]_vars

\* C5: a boolean query on must_have keys against an indexer into which nothing
\* has been indexed (never built, or built from the empty batch) returns the
\* empty list and raises no error.
C5_EmptyIndexQuery ==
  (/\ last = "boolean_query"
   /\ res.any_of = <<>>
   /\ (built = "never" \/ (built = "complete" /\ chain = <<>>))) =>
    (res.err = "none" /\ res.val = <<>>)

\* The buffer ends inside a varint: its last byte has the continuation bit.
EndsMidVarint(b) == b # <<>> /\ b[Len(b)] >= 128

\* C6: on a buffer that ends inside a varint, varint_decode_stream never ends
\* normally and ends with IndexError after at most Len(cbuf) + 1 reads, and
\* decompress_postings raises IndexError instead of returning a list.
C6_TruncatedVarintFails ==
  (EndsMidVarint(cbuf) /\ cphase \in {"decoding", "decoded"}) =>
    /\ cst.status # "done"
    /\ csteps <= Len(cbuf) + 1
    /\ (cphase = "decoding" /\ cst.status = "running") => ENABLED DecodePass
    /\ (cphase = "decoded") => (cst.status = "IndexError" /\ cres.err = "IndexError")

\* Complete values were decoded before the incomplete one was reached.
C6_Witness ==
  /\ EndsMidVarint(cbuf) /\ cphase = "decoded"
  /\ cst.out # <<>>
  /\ cres.err = "IndexError"

\* C7: after any sequence of build_index calls the last of which completed, the
\* store holds exactly the rows a single build_index of the last batch produces
\* on a fresh store, so the rows are a function of the last batch alone.
C7_RebuildReplaces ==
  (pc = "idle" /\ built = "complete") =>
    /\ db.exists /\ db.tables = Schema
    /\ IndexOf(db) = IndexRows(chain)

\* A build has just replaced a store that held other rows.
C7_Witness ==
  /\ last = "build_commit" /\ replaced
  /\ db.postings # {}

\* C8: on strictly ascending lists a and b, intersect_sorted ends with the
\* ascending list of Range(a) \cap Range(b) and merge_sorted with that of
\* Range(a) \cup Range(b), both strictly ascending; each call takes a bounded
\* number of loop passes and a pass is always possible until it has ended.
C8_ListOps ==
  LET a == lst.a
      b == lst.b
  IN /\ lop = "intersect" =>
          /\ lsteps <= Len(a) + Len(b) + 1
          /\ lst.phase # "done" => ENABLED IntersectPass
          /\ lst.phase = "done" =>
               /\ lst.out = SortSet(Range(a) \cap Range(b))
               /\ StrictlyAscending(lst.out)
     /\ lop = "merge" =>
          /\ lsteps <= 2 * (Len(a) + Len(b)) + 4
          /\ lst.phase # "done" => ENABLED MergePass
          /\ lst.phase = "done" =>
               /\ lst.res = SortSet(Range(a) \cup Range(b))
               /\ StrictlyAscending(lst.res)

\* An intersection that is a proper part of both lists.
C8_Witness ==
  /\ lop = "intersect" /\ lst.phase = "done"
  /\ lst.out # <<>>
  /\ Len(lst.out) < Len(lst.a) /\ Len(lst.out) < Len(lst.b)

\* C9: decompress_postings(compress_postings(L)) = L for every ascending,
\* duplicate-free list L of non-negative integers; the empty list gives empty
\* bytes and empty bytes give the empty list; every delta is non-negative and
\* every varint decodes back to the delta it encodes.
C9_RoundTrip ==
  /\ (cmode = "list" /\ cphase = "decoded") => cres = [err |-> "none", val |-> cin]
  /\ (cmode = "list" /\ cphase # "start" /\ cin = <<>>) => cbuf = <<>>
  /\ (cphase = "decoded" /\ cbuf = <<>>) => cres = [err |-> "none", val |-> <<>>]
  /\ cmode = "list" =>
       \A i \in DOMAIN cin :
         LET delta == Deltas(cin)[i]
             dec == varint_decode_stream(varint_encode(delta))
         IN delta >= 0 /\ dec.status = "done" /\ dec.out = <<delta>>

\* A list of three or more values, one of them needing several bytes.
C9_Witness ==
  /\ cmode = "list" /\ cphase = "decoded"
  /\ Len(cin) >= 3 /\ Len(cbuf) > Len(cin)
  /\ cres.val = cin

\* The shard ids the block numbers of the model can fall into.
ShardIds == 0..(300 \div shard_size)

\* The persisted shards rows whose range contains block number b.
Owners(d, b) == {r \in d.shards : r.start_block <= b /\ b <= r.end_block}

\* Some record of batch c in the shard of block number b has an event.
ShardHasEvents(c, b) ==
  \E m \in DOMAIN c :
    /\ c[m].block_number \div shard_size = b \div shard_size
    /\ c[m].transactions # <<>>

\* Every shards row spans shard_id * shard_size .. start_block + shard_size - 1
\* and the rows' ranges are pairwise disjoint.
ShardRowsPartition(d) ==
  /\ \A r \in d.shards :
       /\ r.start_block = r.shard_id * shard_size
       /\ r.end_block = r.start_block + shard_size - 1
  /\ \A r1 \in d.shards, r2 \in d.shards :
       r1 # r2 => (r1.end_block < r2.start_block \/ r2.end_block < r1.start_block)

\* Every postings row decodes to a non-empty strictly ascending list inside the
\* range of the shards row of its shard_id.
PostingsRowsInRange(d) ==
  \A p \in d.postings :
    LET dec == decompress_postings(p.postings)
    IN /\ dec.err = "none"
       /\ dec.val # <<>>
       /\ StrictlyAscending(dec.val)
       /\ \E r \in d.shards :
            /\ r.shard_id = p.shard_id
            /\ \A i \in DOMAIN dec.val :
                 r.start_block <= dec.val[i] /\ dec.val[i] <= r.end_block

\* C10 as stated: after a completed build_index every shards row spans
\* shard_id * shard_size .. start_block + shard_size - 1, the rows' ranges are
\* pairwise disjoint, every block number b of the batch is owned by exactly one
\* persisted shards row, the one with shard_id = b div shard_size, and every
\* postings row decodes to a non-empty strictly ascending list inside the range
\* of its shard's row.
C10_EveryBlockOwned ==
  (pc = "idle" /\ built = "complete") =>
    /\ ShardRowsPartition(db)
    /\ \A n \in DOMAIN chain :
         LET b == chain[n].block_number
         IN /\ \A r \in Owners(db, b) : r.shard_id = b \div shard_size
            /\ Cardinality(Owners(db, b)) = 1
    /\ PostingsRowsInRange(db)

\* C10, amended: as stated, except that a block number b of the batch is owned
\* by a persisted shards row (exactly one, with shard_id = b div shard_size)
\* if and only if some record of the batch in b's shard has an event; a shard
\* all of whose records are without events has no shards row, and b then lies
\* in no persisted range.  In either case b div shard_size is the one shard
\* whose computed range contains b.
C10_ShardInvariant ==
  (pc = "idle" /\ built = "complete") =>
    /\ ShardRowsPartition(db)
    /\ \A n \in DOMAIN chain :
         LET b == chain[n].block_number
         IN /\ {sid \in ShardIds :
                  /\ ShardRow(sid, {}).start_block <= b
                  /\ b <= ShardRow(sid, {}).end_block} = {b \div shard_size}
            /\ \A r \in Owners(db, b) : r.shard_id = b \div shard_size
            /\ ShardHasEvents(chain, b) => Cardinality(Owners(db, b)) = 1
            /\ ~ShardHasEvents(chain, b) => Owners(db, b) = {}
    /\ PostingsRowsInRange(db)

\* A completed build of a batch with a record whose shard has no event, which
\* no persisted row owns, and a record with events, owned by the row of its
\* shard, which has postings rows.
C10_Witness ==
  /\ pc = "idle" /\ built = "complete"
  /\ \E n \in DOMAIN chain, m \in DOMAIN chain :
       /\ ~ShardHasEvents(chain, chain[n].block_number)
       /\ Owners(db, chain[n].block_number) = {}
       /\ chain[m].transactions # <<>>
       /\ Cardinality(Owners(db, chain[m].block_number)) = 1
       /\ \E p \in db.postings :
            p.shard_id = chain[m].block_number \div shard_size

====
